---- MODULE Spec2Model ----
(***************************************************************************)
(* A model of cluster_utils: the walltime formatter, the header builder,   *)
(* the job string assembler, the submission runner (cluster_utils/utils.py) *)
(* and the farm builder (cluster_utils/meta_farm.py).                      *)
(*                                                                         *)
(* Python strings are TLA+ strings, built with \o exactly where the code   *)
(* builds them with f-strings and join.  An optional argument is None or   *)
(* Some(v).  A call's outcome is a record [err, value]: err = "none" for a *)
(* normal return, otherwise the name of the exception raised.              *)
(***************************************************************************)
EXTENDS Integers, Sequences, FiniteSets, TLC

VARIABLES
    DEFAULT_PLATFORM,   \* module global read from the environment at import
    fs,                 \* the filesystem: [dirs: set of paths, files: path -> content]
    op,                 \* name of the last operation called ("none" before any)
    args,               \* the arguments of the last call
    ret,                \* the outcome of the last call
    ops                 \* the side effects of the last call, in program order

vars == <<DEFAULT_PLATFORM, fs, op, args, ret, ops>>

-----------------------------------------------------------------------------
(* Bounds of the model. *)

MaxMins == 3000
MaxArray == 2
MaxCases == 2

-----------------------------------------------------------------------------
(* Python values. *)

None == <<>>
Some(v) == <<v>>
Get(o) == o[1]

Ok(v) == [err |-> "none", value |-> v]
Raise(e) == [err |-> e, value |-> ""]

-----------------------------------------------------------------------------
(* String helpers: str(), format specs, split and join. *)

Digit(d) == SubSeq("0123456789", d + 1, d + 1)

RECURSIVE str_int(_)
\* str(n) / f'{n}' of a non-negative int
str_int(n) == IF n < 10 THEN Digit(n) ELSE str_int(n \div 10) \o Digit(n % 10)

\* f'{n:02d}' of a non-negative int: zero-padded to at least two digits
fmt_02d(n) == IF n < 10 THEN "0" \o Digit(n) ELSE str_int(n)

\* f'{x}' of an optional string: str(None) is 'None'
str_opt(o) == IF o = None THEN "None" ELSE Get(o)

\* f'{x}' of an optional int
str_opt_int(o) == IF o = None THEN "None" ELSE str_int(Get(o))

RECURSIVE join(_, _)
\* sep.join(parts)
join(sep, parts) ==
    IF parts = <<>> THEN ""
    ELSE IF Len(parts) = 1 THEN parts[1]
    ELSE parts[1] \o sep \o join(sep, Tail(parts))

\* The positions of the newline characters of s
NewlinePositions(s) == {i \in 1..Len(s) : SubSeq(s, i, i) = "\n"}

\* s.split('\n'): the lines of a text ('a\nb\n' has the lines 'a', 'b', '')
Lines(s) ==
    LET NL == NewlinePositions(s)
        \* position of the k-th newline; 0 before the first, Len(s) + 1 after the last
        At(k) == IF k = 0 THEN 0
                 ELSE IF k > Cardinality(NL) THEN Len(s) + 1
                 ELSE CHOOSE i \in NL : Cardinality({j \in NL : j < i}) = k - 1
    IN  [k \in 1..(Cardinality(NL) + 1) |-> SubSeq(s, At(k - 1) + 1, At(k) - 1)]

\* sub in s
Contains(s, sub) ==
    \E i \in 1..(Len(s) - Len(sub) + 1) : SubSeq(s, i, i + Len(sub) - 1) = sub

\* s.startswith(pre), s.endswith(suf)
StartsWith(s, pre) == Len(pre) <= Len(s) /\ SubSeq(s, 1, Len(pre)) = pre
EndsWith(s, suf) == Len(suf) <= Len(s) /\ SubSeq(s, Len(s) - Len(suf) + 1, Len(s)) = suf

-----------------------------------------------------------------------------
(* format_walltime_str *)

\* datetime.timedelta(minutes=m), normalised to days and seconds (0 <= seconds < 86400)
timedelta(minutes) ==
    [days |-> (minutes * 60) \div 86400, seconds |-> (minutes * 60) % 86400]

format_walltime_str_minutes_unwrapped(walltime_mins) ==
    LET t == timedelta(walltime_mins)
        days == t.days
        hours == t.seconds \div 3600
        minutes == t.seconds \div 60
    IN  IF t.days = 0
        THEN fmt_02d(hours) \o ":" \o fmt_02d(minutes) \o ":00"
        ELSE str_int(days) \o "-" \o fmt_02d(hours) \o ":" \o fmt_02d(minutes) \o ":00"

format_walltime_str(walltime_mins) ==
    LET t == timedelta(walltime_mins)
        days == t.days
        hours == t.seconds \div 3600
        minutes == (t.seconds \div 60) % 60
    IN  IF t.days = 0
        THEN fmt_02d(hours) \o ":" \o fmt_02d(minutes) \o ":00"
        ELSE str_int(days) \o "-" \o fmt_02d(hours) \o ":" \o fmt_02d(minutes) \o ":00"

-----------------------------------------------------------------------------
(* get_header.  kw is the record of keyword arguments after defaults: the  *)
(* optional ones (output_dir, gpu_mem_gb, array_len) are None when absent. *)

\* The value of the platform parameter: 'slurm' unless the caller passes one
header_platform(kw) == IF kw.platform = None THEN "slurm" ELSE Get(kw.platform)

slurm_lines(kw, walltime_str) ==
    LET lines0 == << "#!/bin/bash",
                     "#SBATCH --time=" \o walltime_str,
                     "#SBATCH --nodes=" \o str_int(kw.nodes),
                     "#SBATCH --ntasks-per-node=1",
                     "#SBATCH --cpus-per-task=" \o str_int(kw.cpus),
                     "#SBATCH --mem=" \o str_int(kw.mem_gb) \o "gb",
                     "#SBATCH --job-name=" \o kw.job_name,
                     "#SBATCH --account=" \o kw.allocation >>
        lines1 == IF kw.output_dir # None
                  THEN IF kw.array_len # None
                       THEN lines0 \o << "#SBATCH --output=" \o Get(kw.output_dir) \o "/%x-%j-%a.txt",
                                         "#SBATCH --array=1-" \o str_int(Get(kw.array_len)) \o "\n" >>
                       ELSE lines0 \o << "#SBATCH --output=" \o Get(kw.output_dir) \o "/%x-%j.txt" >>
                  ELSE lines0
        lines2 == IF kw.gpus > 0
                  THEN lines1 \o << "#SBATCH --gres=gpu:" \o str_int(kw.gpus) >>
                  ELSE lines1
        lines3 == IF kw.gpu_mem_gb # None
                  THEN lines2 \o << "#SBATCH --mem-per-gpu=" \o str_int(Get(kw.gpu_mem_gb)) \o "gb" >>
                  ELSE lines2
    IN  lines3

\* pbs_header with the GPU clause emitted for every gpus >= 0
pbs_header_gpus_nonneg(kw, walltime_str) ==
    LET output_path == IF kw.array_len # None
                       THEN str_opt(kw.output_dir) \o "/^array_index^.txt"
                       ELSE str_opt(kw.output_dir) \o "/out.txt"
        array_str   == IF kw.array_len # None
                       THEN "#PBS -J 1-" \o str_int(Get(kw.array_len)) \o "\n"
                       ELSE ""
        gpu_str     == IF kw.gpus >= 0 THEN ":ngpus=" \o str_int(kw.gpus) ELSE ""
        gpu_mem_str == IF kw.gpu_mem_gb # None
                       THEN ":gpu_mem=" \o str_int(Get(kw.gpu_mem_gb)) \o "gb"
                       ELSE ""
    IN  "#!/bin/bash\n"
        \o "#PBS -l walltime=" \o walltime_str \o ",select=" \o str_int(kw.nodes)
            \o ":ncpus=" \o str_int(kw.cpus) \o ":mem=" \o str_int(kw.mem_gb) \o "gb"
            \o gpu_str \o gpu_mem_str \o "\n"
        \o "#PBS -N " \o kw.job_name \o "\n"
        \o "#PBS -A " \o kw.allocation \o "\n"
        \o "#PBS -j oe\n"
        \o "#PBS -o " \o output_path \o "\n"
        \o array_str

pbs_header(kw, walltime_str) ==
    LET output_path == IF kw.array_len # None
                       THEN str_opt(kw.output_dir) \o "/^array_index^.txt"
                       ELSE str_opt(kw.output_dir) \o "/out.txt"
        array_str   == IF kw.array_len # None
                       THEN "#PBS -J 1-" \o str_int(Get(kw.array_len)) \o "\n"
                       ELSE ""
        gpu_str     == IF kw.gpus > 0 THEN ":ngpus=" \o str_int(kw.gpus) ELSE ""
        gpu_mem_str == IF kw.gpu_mem_gb # None
                       THEN ":gpu_mem=" \o str_int(Get(kw.gpu_mem_gb)) \o "gb"
                       ELSE ""
    IN  "#!/bin/bash\n"
        \o "#PBS -l walltime=" \o walltime_str \o ",select=" \o str_int(kw.nodes)
            \o ":ncpus=" \o str_int(kw.cpus) \o ":mem=" \o str_int(kw.mem_gb) \o "gb"
            \o gpu_str \o gpu_mem_str \o "\n"
        \o "#PBS -N " \o kw.job_name \o "\n"
        \o "#PBS -A " \o kw.allocation \o "\n"
        \o "#PBS -j oe\n"
        \o "#PBS -o " \o output_path \o "\n"
        \o array_str

get_header(kw) ==
    LET walltime_str == format_walltime_str(kw.walltime_mins)
        platform == header_platform(kw)
    IN  IF platform = "slurm" THEN Ok(join("\n", slurm_lines(kw, walltime_str)))
        ELSE IF platform = "pbs" THEN Ok(pbs_header(kw, walltime_str))
        ELSE Raise("ValueError")

-----------------------------------------------------------------------------
(* get_job_string.  job is None or Some(command), job_array is None or     *)
(* Some(list of commands); header_kwargs is the record get_header takes.   *)
(* The outcome also records header_call: None, or Some(kw) for the keyword *)
(* arguments get_header was called with.                                   *)

OkJob(v, kw) == [err |-> "none", value |-> v, header_call |-> Some(kw)]
RaiseJob(e, call) == [err |-> e, value |-> "", header_call |-> call]

\* [f'{i+1})\n{job}\n;;\n' for i, job in enumerate(job_array)], numbered from 0
job_strings_from_zero(job_array) ==
    [i \in 1..Len(job_array) |-> str_int(i - 1) \o ")\n" \o job_array[i] \o "\n;;\n"]

\* [f'{i+1})\n{job}\n;;\n' for i, job in enumerate(job_array)]
job_strings(job_array) ==
    [i \in 1..Len(job_array) |-> str_int(i) \o ")\n" \o job_array[i] \o "\n;;\n"]

\* The body of the script and the keyword arguments passed on to get_header
job_body(job, job_array, slurm, header_kwargs) ==
    IF job # None
    THEN [job_string |-> Get(job), kw |-> header_kwargs]
    ELSE [job_string |->
              (IF slurm THEN "case $SLURM_ARRAY_TASK_ID in\n" ELSE "case $PBS_ARRAY_INDEX in\n")
                  \o join("", job_strings(Get(job_array))) \o "\nesac",
          kw |-> [header_kwargs EXCEPT !.array_len = Some(Len(Get(job_array)))]]

\* get_job_string without the check that refuses both job and job_array
get_job_string_both_allowed(job, job_array, prefix, slurm, header_kwargs) ==
    IF job = None /\ job_array = None THEN RaiseJob("ValueError", None)
    ELSE LET b == job_body(job, job_array, slurm, header_kwargs)
             header == get_header(b.kw)
         IN  IF header.err # "none" THEN RaiseJob(header.err, Some(b.kw))
             ELSE OkJob(header.value \o "\n" \o prefix \o "\n" \o b.job_string \o "\n", b.kw)

get_job_string(job, job_array, prefix, slurm, header_kwargs) ==
    IF job = None /\ job_array = None THEN RaiseJob("ValueError", None)
    ELSE IF job # None /\ job_array # None THEN RaiseJob("ValueError", None)
    ELSE LET b == job_body(job, job_array, slurm, header_kwargs)
             header == get_header(b.kw)
         IN  IF header.err # "none" THEN RaiseJob(header.err, Some(b.kw))
             ELSE OkJob(header.value \o "\n" \o prefix \o "\n" \o b.job_string \o "\n", b.kw)

-----------------------------------------------------------------------------
(* The filesystem and the operating-system calls the code makes.  A call   *)
(* on a filesystem f returns [fs, err]: the filesystem after it and        *)
(* "none" or the exception it raises.  Paths are relative, '/'-separated,  *)
(* without '.', '..' or doubled separators.                                *)

Effect(call, path, data) == [call |-> call, path |-> path, data |-> data]

SlashPositions(p) == {i \in 1..Len(p) : SubSeq(p, i, i) = "/"}

Last(S) == CHOOSE x \in S : \A y \in S : y <= x

\* os.path.dirname(p)
dirname(p) ==
    LET S == SlashPositions(p)
    IN  IF S = {} THEN ""
        ELSE IF Last(S) = 1 THEN "/"
        ELSE SubSeq(p, 1, Last(S) - 1)

\* os.path.join(a, b)
path_join2(a, b) ==
    IF StartsWith(b, "/") THEN b
    ELSE IF a = "" \/ EndsWith(a, "/") THEN a \o b
    ELSE a \o "/" \o b

RECURSIVE path_join(_)
\* os.path.join(*parts)
path_join(parts) ==
    IF Len(parts) = 1 THEN parts[1]
    ELSE path_join(<< path_join2(parts[1], parts[2]) >> \o SubSeq(parts, 3, Len(parts)))

\* The path itself and every leading directory of it
Ancestors(p) == {SubSeq(p, 1, i - 1) : i \in {j \in SlashPositions(p) : j > 1}} \cup {p}

Exists(f, p) == p \in f.dirs \/ p \in DOMAIN f.files

PutFile(f, p, data) ==
    [f EXCEPT !.files = [q \in DOMAIN f.files \cup {p} |-> IF q = p THEN data ELSE f.files[q]]]

\* os.makedirs(path, exist_ok=True)
makedirs(f, path) ==
    IF path = "" THEN [fs |-> f, err |-> "FileNotFoundError"]
    ELSE IF \E a \in Ancestors(path) : a \in DOMAIN f.files
         THEN [fs |-> f, err |-> "FileExistsError"]
    ELSE [fs |-> [f EXCEPT !.dirs = @ \cup Ancestors(path)], err |-> "none"]

\* os.mkdir(path) that accepts an existing directory, as makedirs(exist_ok=True) does
mkdir_exist_ok(f, path) ==
    IF path \in DOMAIN f.files THEN [fs |-> f, err |-> "FileExistsError"]
    ELSE IF dirname(path) # "" /\ dirname(path) \notin f.dirs
         THEN [fs |-> f, err |-> "FileNotFoundError"]
    ELSE [fs |-> [f EXCEPT !.dirs = @ \cup {path}], err |-> "none"]

\* os.mkdir(path)
mkdir(f, path) ==
    IF Exists(f, path) THEN [fs |-> f, err |-> "FileExistsError"]
    ELSE IF dirname(path) # "" /\ dirname(path) \notin f.dirs
         THEN [fs |-> f, err |-> "FileNotFoundError"]
    ELSE [fs |-> [f EXCEPT !.dirs = @ \cup {path}], err |-> "none"]

\* open(path, 'w') / open(path, 'w+'): creates the file or truncates it
open_w(f, path) ==
    IF path \in f.dirs THEN [fs |-> f, err |-> "IsADirectoryError"]
    ELSE IF dirname(path) # "" /\ dirname(path) \notin f.dirs
         THEN [fs |-> f, err |-> "FileNotFoundError"]
    ELSE [fs |-> PutFile(f, path, ""), err |-> "none"]

\* shutil.copy(src, dst) onto a file path dst
copy(f, src, dst) ==
    IF src \notin DOMAIN f.files THEN [fs |-> f, err |-> "FileNotFoundError"]
    ELSE IF dirname(dst) # "" /\ dirname(dst) \notin f.dirs
         THEN [fs |-> f, err |-> "FileNotFoundError"]
    ELSE [fs |-> PutFile(f, dst, f.files[src]), err |-> "none"]

(* A program state s = [fs, ops, err] threaded through the statements of a *)
(* function: a statement is skipped once err is set (an exception          *)
(* propagates), and an effect that happened is appended to ops.            *)

Start(f) == [fs |-> f, ops |-> <<>>, err |-> "none"]

Then(s, r, effects) ==
    [fs |-> r.fs, ops |-> IF r.err = "none" THEN s.ops \o effects ELSE s.ops, err |-> r.err]

do_makedirs(s, path) ==
    IF s.err # "none" THEN s
    ELSE Then(s, makedirs(s.fs, path), << Effect("makedirs", path, "") >>)

do_mkdir(s, path) ==
    IF s.err # "none" THEN s
    ELSE Then(s, mkdir(s.fs, path), << Effect("mkdir", path, "") >>)

do_copy(s, src, dst) ==
    IF s.err # "none" THEN s
    ELSE Then(s, copy(s.fs, src, dst), << Effect("copy", dst, src) >>)

\* with open(path, 'w') as f: f.write(<text>), where evaluating <text> gives
\* the outcome text (a string, or an exception raised once the file is open)
do_write(s, path, text) ==
    IF s.err # "none" THEN s
    ELSE LET o == Then(s, open_w(s.fs, path), << Effect("open", path, "") >>)
         IN  IF o.err # "none" THEN o
             ELSE IF text.err # "none"
                  THEN [o EXCEPT !.ops = Append(@, Effect("close", path, "")), !.err = text.err]
             ELSE [fs |-> PutFile(o.fs, path, text.value),
                   ops |-> o.ops \o << Effect("write", path, text.value),
                                       Effect("close", path, "") >>,
                   err |-> "none"]

-----------------------------------------------------------------------------
(* run_job *)

\* DEFAULT_JOB_DIR when CLUSTER_UTILS_JOB_DIR is not set
DEFAULT_JOB_DIR == "~/scratch/gregdeon/jobs"

platform_extension(platform) == IF platform = "slurm" THEN "sh" ELSE "pbs"

\* The submission step that ignores dry_run
submit_despite_dry_run(s, dry_run, platform, fname) ==
    IF s.err # "none" THEN s
    ELSE IF platform = "slurm"
         THEN [s EXCEPT !.ops = Append(@, Effect("system", "", "sbatch " \o fname))]
    ELSE [s EXCEPT !.ops = Append(@, Effect("system", "", "qsub " \o fname))]

\* if dry_run: ... else: os.system(...)
submit(s, dry_run, platform, fname) ==
    IF s.err # "none" THEN s
    ELSE IF dry_run THEN s
    ELSE IF platform = "slurm"
         THEN [s EXCEPT !.ops = Append(@, Effect("system", "", "sbatch " \o fname))]
    ELSE [s EXCEPT !.ops = Append(@, Effect("system", "", "qsub " \o fname))]

\* run_job(fname, dry_run, **job_kwargs) on the filesystem f, with job_uuid
\* the value of uuid.uuid1() and default_platform the global DEFAULT_PLATFORM.
\* job_kwargs = [job, job_array, prefix, slurm, header_kwargs], where an
\* output_dir or platform of None in header_kwargs is a keyword not passed.
run_job(f, fname, dry_run, job_kwargs, job_uuid, default_platform) ==
    LET hk == job_kwargs.header_kwargs
        platform == IF hk.platform = None THEN default_platform ELSE Get(hk.platform)
    IN  IF fname = None /\ platform \notin {"slurm", "pbs"}
        THEN [Start(f) EXCEPT !.err = "KeyError"]
        ELSE
        LET fname1 == IF fname = None
                      THEN path_join(<< DEFAULT_JOB_DIR, hk.job_name, "jobs",
                                       job_uuid \o "." \o platform_extension(platform) >>)
                      ELSE Get(fname)
            output_dir == IF hk.output_dir = None
                          THEN path_join(<< dirname(dirname(fname1)), "output", job_uuid >>)
                          ELSE Get(hk.output_dir)
            kw == [hk EXCEPT !.output_dir = Some(output_dir)]
            s1 == do_makedirs(Start(f), dirname(fname1))
            s2 == do_makedirs(s1, output_dir)
            job_string == get_job_string(job_kwargs.job, job_kwargs.job_array,
                                         job_kwargs.prefix, job_kwargs.slurm, kw)
            s3 == IF s2.err # "none" THEN s2
                  ELSE IF job_string.err # "none" THEN [s2 EXCEPT !.err = job_string.err]
                  ELSE do_write(s2, fname1, job_string)
        IN  submit(s3, dry_run, platform, fname1)

-----------------------------------------------------------------------------
(* make_farm *)

\* FARM_FILE_DIR: the farm_files directory next to meta_farm.py
FARM_FILE_DIR == "cluster_utils/farm_files"

\* '\n'.join([f'{i+1} {case_string}' for i, case_string in enumerate(case_list)])
table_string(case_list) ==
    join("\n", [i \in 1..Len(case_list) |-> str_int(i) \o " " \o case_list[i]])

\* get_job_string(final_script, **final_args): ** of None is a TypeError
final_job_string(final_script, final_args) ==
    IF final_args = None THEN RaiseJob("TypeError", None)
    ELSE get_job_string(Some(final_script), None, "", TRUE, Get(final_args))

\* make_farm that writes table.dat before the two job scripts
make_farm_table_first(f, farm_dir, case_list, prefix, job_args, final_script, final_args) ==
    LET s1 == do_mkdir(Start(f), farm_dir)
        s2 == do_copy(s1, FARM_FILE_DIR \o "/config.h", farm_dir \o "/config.h")
        s3 == do_copy(s2, FARM_FILE_DIR \o "/single_case.sh", farm_dir \o "/single_case.sh")
        s4 == do_write(s3, farm_dir \o "/table.dat", Ok(table_string(case_list)))
        s5 == do_write(s4, farm_dir \o "/job_script.sh",
                       get_job_string(Some("task.run"), None, prefix, TRUE, job_args))
        s6 == do_write(s5, farm_dir \o "/resubmit_script.sh",
                       get_job_string(Some("autojob.run"), None, prefix, TRUE, job_args))
    IN  IF final_script # None
        THEN do_write(s6, farm_dir \o "/final.sh",
                      final_job_string(Get(final_script), final_args))
        ELSE s6

\* make_farm(farm_dir, case_list, prefix, job_args, final_script, final_args)
\* on the filesystem f; job_args and final_args hold get_header's keywords
make_farm(f, farm_dir, case_list, prefix, job_args, final_script, final_args) ==
    LET s1 == do_mkdir(Start(f), farm_dir)
        s2 == do_copy(s1, FARM_FILE_DIR \o "/config.h", farm_dir \o "/config.h")
        s3 == do_copy(s2, FARM_FILE_DIR \o "/single_case.sh", farm_dir \o "/single_case.sh")
        s4 == do_write(s3, farm_dir \o "/job_script.sh",
                       get_job_string(Some("task.run"), None, prefix, TRUE, job_args))
        s5 == do_write(s4, farm_dir \o "/resubmit_script.sh",
                       get_job_string(Some("autojob.run"), None, prefix, TRUE, job_args))
        s6 == do_write(s5, farm_dir \o "/table.dat", Ok(table_string(case_list)))
    IN  IF final_script # None
        THEN do_write(s6, farm_dir \o "/final.sh",
                      final_job_string(Get(final_script), final_args))
        ELSE s6

-----------------------------------------------------------------------------
(* The environment every specification starts from. *)

EmptyFs == [dirs |-> {}, files |-> <<>>]

\* The values CLUSTER_UTILS_PLATFORM selects between; 'slurm' when it is unset
DefaultPlatforms == {"slurm", "pbs"}

InitEnv ==
    /\ op = "none"
    /\ ret = Ok("")
    /\ ops = <<>>

-----------------------------------------------------------------------------
(* Specification of the walltime formatter: Init draws the argument from   *)
(* 0..MaxMins, the one action applies format_walltime_str to it.           *)

InitWalltime ==
    /\ InitEnv
    /\ DEFAULT_PLATFORM = "slurm"
    /\ fs = EmptyFs
    /\ args \in [walltime_mins : 0..MaxMins]

FormatWalltime ==
    /\ op = "none"
    /\ op' = "format_walltime_str"
    /\ ret' = Ok(format_walltime_str(args.walltime_mins))
    /\ UNCHANGED <<DEFAULT_PLATFORM, fs, args, ops>>

NextWalltime == FormatWalltime

SpecWalltime == InitWalltime /\ [][NextWalltime]_vars

-----------------------------------------------------------------------------
(* Specification of the header builder: Init draws the keyword arguments,  *)
(* the one action applies get_header to them.                              *)

JobNames == {"example_job"}
Allocations == {"allocation_name"}
OutputDirs == {None, Some("output_dir")}
Walltimes == {60, 180, 1441}
GpuCounts == {0, 1, 2}
GpuMems == {None, Some(16)}
ArrayLens == {None} \cup {Some(n) : n \in 1..MaxArray}
Platforms == {None, Some("slurm"), Some("pbs"), Some("lsf")}

HeaderKwargs ==
    [job_name : JobNames, allocation : Allocations, output_dir : OutputDirs,
     walltime_mins : Walltimes, nodes : {1}, cpus : {1, 4}, mem_gb : {16},
     gpus : GpuCounts, gpu_mem_gb : GpuMems, array_len : ArrayLens,
     platform : Platforms]

InitHeader ==
    /\ InitEnv
    /\ DEFAULT_PLATFORM = "slurm"
    /\ fs = EmptyFs
    /\ args \in HeaderKwargs

GetHeader ==
    /\ op = "none"
    /\ op' = "get_header"
    /\ ret' = get_header(args)
    /\ UNCHANGED <<DEFAULT_PLATFORM, fs, args, ops>>

NextHeader == GetHeader

SpecHeader == InitHeader /\ [][NextHeader]_vars

-----------------------------------------------------------------------------
(* Specification of the job string assembler: Init draws the arguments,    *)
(* the one action applies get_job_string to them.                          *)

Commands == {"python job.py --fold 1", "python job.py --fold 2"}

\* The lists of at most n commands
CommandLists(n) == UNION {[1..k -> Commands] : k \in 0..n}

JobHeaderKwargs ==
    [job_name : JobNames, allocation : Allocations, output_dir : OutputDirs,
     walltime_mins : {60}, nodes : {1}, cpus : {1}, mem_gb : {16},
     gpus : {0}, gpu_mem_gb : {None}, array_len : {None, Some(5)},
     platform : Platforms]

JobArgs ==
    [job : {None, Some("echo 'hello world'")},
     job_array : {None} \cup {Some(l) : l \in CommandLists(MaxArray)},
     prefix : {"", "module load python"},
     slurm : BOOLEAN,
     header_kwargs : JobHeaderKwargs]

InitJob ==
    /\ InitEnv
    /\ DEFAULT_PLATFORM = "slurm"
    /\ fs = EmptyFs
    /\ args \in JobArgs

GetJobString ==
    /\ op = "none"
    /\ op' = "get_job_string"
    /\ ret' = get_job_string(args.job, args.job_array, args.prefix, args.slurm,
                             args.header_kwargs)
    /\ UNCHANGED <<DEFAULT_PLATFORM, fs, args, ops>>

NextJob == GetJobString

SpecJob == InitJob /\ [][NextJob]_vars

-----------------------------------------------------------------------------
(* Specification of the submission runner: Init draws the arguments, the   *)
(* uuid and the filesystem the call finds; the one action applies run_job. *)

Uuids == {"1b4e28ba", "6fa459ea"}

\* A filesystem in which an earlier run left a job file behind
StaleFs == [dirs |-> {"jobs"}, files |-> [q \in {"jobs/example_job.sh"} |-> "stale\n"]]

RunHeaderKwargs ==
    [job_name : JobNames, allocation : Allocations, output_dir : OutputDirs,
     walltime_mins : {60}, nodes : {1}, cpus : {1}, mem_gb : {16},
     gpus : {0}, gpu_mem_gb : {None}, array_len : {None},
     platform : Platforms]

RunArgs ==
    [fname : {None, Some("jobs/example_job.sh"), Some("example_job.sh")},
     dry_run : BOOLEAN,
     job_uuid : Uuids,
     job_kwargs : [job : {None, Some("echo 'hello world'")},
                   job_array : {None} \cup {Some(l) : l \in [1..MaxArray -> Commands]},
                   prefix : {"module load python"},
                   slurm : BOOLEAN,
                   header_kwargs : RunHeaderKwargs]]

InitRun ==
    /\ InitEnv
    /\ DEFAULT_PLATFORM \in DefaultPlatforms
    /\ fs \in {EmptyFs, StaleFs}
    /\ args \in RunArgs

RunJob ==
    /\ op = "none"
    /\ LET s == run_job(fs, args.fname, args.dry_run, args.job_kwargs, args.job_uuid,
                        DEFAULT_PLATFORM)
       IN  /\ fs' = s.fs
           /\ ops' = s.ops
           /\ ret' = IF s.err = "none" THEN Ok("") ELSE Raise(s.err)
    /\ op' = "run_job"
    /\ UNCHANGED <<DEFAULT_PLATFORM, args>>

NextRun == RunJob

SpecRun == InitRun /\ [][NextRun]_vars

-----------------------------------------------------------------------------
(* Specification of the farm builder: any number of make_farm calls, one   *)
(* after the other, on a filesystem that holds the installed package with  *)
(* or without its template files.                                          *)

Templates == {FARM_FILE_DIR \o "/config.h", FARM_FILE_DIR \o "/single_case.sh"}

PackageFs(present) ==
    [dirs |-> Ancestors(FARM_FILE_DIR),
     files |-> [q \in present |-> "<template " \o q \o ">\n"]]

Cases == {"python main.py --seed 1", "python main.py --seed 2"}

CaseLists == UNION {[1..k -> Cases] : k \in 0..MaxCases}

FarmKwargs(platform, output_dir) ==
    [job_name |-> "example_farm", allocation |-> "st-kevinlb-1", output_dir |-> output_dir,
     walltime_mins |-> 180, nodes |-> 1, cpus |-> 1, mem_gb |-> 4, gpus |-> 0,
     gpu_mem_gb |-> None, array_len |-> None, platform |-> platform]

FarmJobArgs ==
    {FarmKwargs(None, Some("output_dir")), FarmKwargs(Some("pbs"), None),
     FarmKwargs(Some("lsf"), None)}

FarmArgs ==
    [farm_dir : {"example_farm"},
     case_list : CaseLists,
     prefix : {"source env/bin/activate"},
     job_args : FarmJobArgs,
     final : {[script |-> None, args |-> None],
              [script |-> Some("python combine_data.py"), args |-> None],
              [script |-> Some("python combine_data.py"), args |-> Some(FarmKwargs(None, None))]}]

InitFarm ==
    /\ InitEnv
    /\ DEFAULT_PLATFORM = "slurm"
    /\ \E present \in SUBSET Templates : fs = PackageFs(present)
    /\ args = <<>>

MakeFarm ==
    \E a \in FarmArgs :
        LET s == make_farm(fs, a.farm_dir, a.case_list, a.prefix, a.job_args,
                           a.final.script, a.final.args)
        IN  /\ fs' = s.fs
            /\ ops' = s.ops
            /\ ret' = IF s.err = "none" THEN Ok("") ELSE Raise(s.err)
            /\ op' = "make_farm"
            /\ args' = a
            /\ UNCHANGED DEFAULT_PLATFORM

NextFarm == MakeFarm

SpecFarm == InitFarm /\ [][NextFarm]_vars

-----------------------------------------------------------------------------
(* C1: the walltime string and its round trip. *)

\* Position of the first occurrence of the one-character string c in s, 0 if none
RECURSIVE IndexOf(_, _, _)
IndexOf(s, c, i) ==
    IF i > Len(s) THEN 0
    ELSE IF SubSeq(s, i, i) = c THEN i
    ELSE IndexOf(s, c, i + 1)

DigitVal(c) == CHOOSE d \in 0..9 : Digit(d) = c

IsDigits(s) == Len(s) > 0 /\ \A i \in 1..Len(s) : \E d \in 0..9 : Digit(d) = SubSeq(s, i, i)

RECURSIVE ParseInt(_)
ParseInt(s) ==
    IF Len(s) = 1 THEN DigitVal(s)
    ELSE 10 * ParseInt(SubSeq(s, 1, Len(s) - 1)) + DigitVal(SubSeq(s, Len(s), Len(s)))

\* A walltime string read back as [D-]HH:MM:SS
ParseWalltime(s) ==
    LET dash == IndexOf(s, "-", 1)
        d    == IF dash = 0 THEN "0" ELSE SubSeq(s, 1, dash - 1)
        rest == SubSeq(s, dash + 1, Len(s))
    IN  [wellformed |-> /\ Len(rest) = 8
                        /\ SubSeq(rest, 3, 3) = ":" /\ SubSeq(rest, 6, 6) = ":"
                        /\ IsDigits(SubSeq(rest, 1, 2)) /\ IsDigits(SubSeq(rest, 4, 5))
                        /\ IsDigits(SubSeq(rest, 7, 8)) /\ IsDigits(d),
         hasDays |-> dash # 0,
         D  |-> d,
         HH |-> SubSeq(rest, 1, 2),
         MM |-> SubSeq(rest, 4, 5),
         SS |-> SubSeq(rest, 7, 8)]

\* C1: for every m >= 0 the result is HH:MM:00 when m < 1440 and D-HH:MM:00
\* otherwise, D = m div 1440 unpadded, HH = (m mod 1440) div 60 < 24 and
\* MM = m mod 60 < 60 in two digits, and D*1440 + HH*60 + MM recovers m;
\* 0, 60, 1440 and 1441 give the strings of the tests.
C1_WalltimeRoundTrip ==
    op = "format_walltime_str" =>
        LET m == args.walltime_mins
            p == ParseWalltime(ret.value)
        IN  /\ ret.err = "none"
            /\ p.wellformed
            /\ p.hasDays <=> m >= 1440
            /\ p.SS = "00"
            /\ ParseInt(p.D) = m \div 1440
            /\ p.hasDays => p.D = str_int(m \div 1440) /\ SubSeq(p.D, 1, 1) # "0"
            /\ ParseInt(p.HH) = (m % 1440) \div 60 /\ ParseInt(p.HH) < 24
            /\ ParseInt(p.MM) = m % 60 /\ ParseInt(p.MM) < 60
            /\ ParseInt(p.D) * 1440 + ParseInt(p.HH) * 60 + ParseInt(p.MM) = m
            /\ (m = 0 => ret.value = "00:00:00")
            /\ (m = 60 => ret.value = "01:00:00")
            /\ (m = 1440 => ret.value = "1-00:00:00")
            /\ (m = 1441 => ret.value = "1-00:01:00")

\* A walltime of more than a day with a non-zero hour and minute part was formatted
C1_Witness ==
    /\ op = "format_walltime_str"
    /\ args.walltime_mins = 1440 + 13 * 60 + 7
    /\ ret.value = "1-13:07:00"

-----------------------------------------------------------------------------
(* C5, C6, C7, C10: the header. *)

IsHeader == op = "get_header" /\ ret.err = "none"

\* The output path the tests expect of a PBS header
TestPbsOutputLine(kw) ==
    "#PBS -j oe -o " \o str_opt(kw.output_dir)
        \o (IF kw.array_len # None THEN "/$PBS_JOBNAME-$PBS_JOBID-^array_index^.txt"
                                   ELSE "/$PBS_JOBNAME-$PBS_JOBID.txt")

\* C5: a PBS header carries the combined-output directive and the output path
\* as the single line '#PBS -j oe -o <output_dir>/$PBS_JOBNAME-$PBS_JOBID[-^array_index^].txt'
\* directly after the account line, and ends with a single trailing newline.
C5_PbsCombinedOutputLine ==
    (IsHeader /\ header_platform(args) = "pbs" /\ args.output_dir # None) =>
        LET L == Lines(ret.value)
        IN  /\ \E i \in 1..(Len(L) - 1) :
                    /\ L[i] = "#PBS -A " \o args.allocation
                    /\ L[i + 1] = TestPbsOutputLine(args)
            /\ EndsWith(ret.value, "\n")
            /\ ~EndsWith(ret.value, "\n\n")

\* The GPU clauses a PBS resource-selection line is to carry
PbsGpuClauses(kw) ==
    (IF kw.gpus > 0 THEN ":ngpus=" \o str_int(kw.gpus) ELSE "")
        \o (IF kw.gpu_mem_gb # None THEN ":gpu_mem=" \o str_int(Get(kw.gpu_mem_gb)) \o "gb" ELSE "")

\* C6: the GPU-count clause/directive is emitted exactly when gpus > 0 and the
\* GPU-memory clause/directive exactly when gpu_mem_gb is given; for PBS the
\* header differs from the header of the same arguments without GPUs in the
\* resource-selection line only, which has the clauses appended after
\* 'mem=<mem>gb' in the order ngpus, gpu_mem.
C6_GpuClauses ==
    IsHeader =>
        LET L == Lines(ret.value)
            P(pre) == \E i \in 1..Len(L) : StartsWith(L[i], pre)
            base == get_header([args EXCEPT !.gpus = 0, !.gpu_mem_gb = None]).value
            B == Lines(base)
        IN  IF header_platform(args) = "slurm"
            THEN /\ P("#SBATCH --gres") <=> args.gpus > 0
                 /\ args.gpus > 0 =>
                        \E i \in 1..Len(L) : L[i] = "#SBATCH --gres=gpu:" \o str_int(args.gpus)
                 /\ P("#SBATCH --mem-per-gpu") <=> args.gpu_mem_gb # None
                 /\ args.gpu_mem_gb # None =>
                        \E i \in 1..Len(L) :
                            L[i] = "#SBATCH --mem-per-gpu=" \o str_int(Get(args.gpu_mem_gb)) \o "gb"
            ELSE /\ Contains(ret.value, ":ngpus=") <=> args.gpus > 0
                 /\ Contains(ret.value, ":gpu_mem=") <=> args.gpu_mem_gb # None
                 /\ Len(L) = Len(B)
                 /\ \A i \in 1..Len(L) : i # 2 => L[i] = B[i]
                 /\ EndsWith(B[2], ":mem=" \o str_int(args.mem_gb) \o "gb")
                 /\ StartsWith(B[2], "#PBS -l walltime=")
                 /\ L[2] = B[2] \o PbsGpuClauses(args)

\* A PBS header with both GPU clauses, and a Slurm header with both directives
C6_Witness ==
    /\ IsHeader
    /\ args.gpus = 1 /\ args.gpu_mem_gb = Some(16) /\ args.cpus = 1
    /\ header_platform(args) = "pbs"
    /\ Lines(ret.value)[2] = "#PBS -l walltime=" \o format_walltime_str(args.walltime_mins)
                                \o ",select=1:ncpus=1:mem=16gb:ngpus=1:gpu_mem=16gb"

HasArrayDirective(kw, header) ==
    LET L == Lines(header)
        want == IF header_platform(kw) = "slurm"
                THEN "#SBATCH --array=1-" \o str_opt_int(kw.array_len)
                ELSE "#PBS -J 1-" \o str_opt_int(kw.array_len)
    IN  \E i \in 1..Len(L) : L[i] = want

HasAnyArrayDirective(header) ==
    LET L == Lines(header)
    IN  \E i \in 1..Len(L) : StartsWith(L[i], "#SBATCH --array") \/ StartsWith(L[i], "#PBS -J")

\* C7: for both scheduler kinds, with or without output_dir, the header has
\* the array-range directive '1-<n>' exactly when array_len = n is set, and an
\* output path emitted for an array job contains the per-task placeholder.
C7_ArrayDirective ==
    IsHeader =>
        LET L == Lines(ret.value)
        IN  /\ args.array_len # None => HasArrayDirective(args, ret.value)
            /\ args.array_len = None => ~HasAnyArrayDirective(ret.value)
            /\ args.array_len # None =>
                    \A i \in 1..Len(L) :
                        /\ StartsWith(L[i], "#SBATCH --output=") => Contains(L[i], "%a")
                        /\ StartsWith(L[i], "#PBS -o ") => Contains(L[i], "^array_index^")

\* C10: a PBS header asked for without output_dir is refused with an error.
C10_PbsRequiresOutputDir ==
    (op = "get_header" /\ header_platform(args) = "pbs" /\ args.output_dir = None) =>
        ret.err # "none"

-----------------------------------------------------------------------------
(* C2, C3: the job string. *)

\* C2: get_job_string raises ValueError when neither job nor job_array is
\* given and when both are given, before get_header is called and without
\* returning any script text.
C2_JobXorJobArray ==
    (op = "get_job_string" /\ ((args.job = None) <=> (args.job_array = None))) =>
        /\ ret.err = "ValueError"
        /\ ret.header_call = None
        /\ ret.value = ""

\* Both job and job_array were given, with arguments that would otherwise build a script
C2_Witness ==
    /\ op = "get_job_string"
    /\ args.job # None /\ args.job_array # None /\ Len(Get(args.job_array)) = 2
    /\ header_platform(args.header_kwargs) = "pbs"
    /\ ret.err = "ValueError"

\* The lines of the case construct for the commands cmds: 'case <var> in',
\* then for each i the three lines '<i>)', the command, ';;', then an empty
\* line and 'esac'
CaseLines(var, cmds) ==
    [k \in 1..(3 * Len(cmds) + 3) |->
        IF k = 1 THEN "case " \o var \o " in"
        ELSE IF k = 3 * Len(cmds) + 2 THEN ""
        ELSE IF k = 3 * Len(cmds) + 3 THEN "esac"
        ELSE LET i == (k - 2) \div 3 + 1
                 r == (k - 2) % 3
             IN  IF r = 0 THEN str_int(i) \o ")" ELSE IF r = 1 THEN cmds[i] ELSE ";;"]

\* C3: for a job_array of length n the script ends with a body of exactly n
\* case arms labelled 1..n in order, arm i carrying command i and closed by
\* ';;', inside 'case <var> in' ... 'esac', and get_header is called with
\* array_len = n.
C3_CaseArms ==
    (op = "get_job_string" /\ args.job = None /\ args.job_array # None /\ ret.err = "none") =>
        LET cmds == Get(args.job_array)
            n == Len(cmds)
            L == Lines(ret.value)
            body == CaseLines(IF args.slurm THEN "$SLURM_ARRAY_TASK_ID" ELSE "$PBS_ARRAY_INDEX", cmds)
            H == Lines(get_header(Get(ret.header_call)).value)
        IN  /\ Get(ret.header_call).array_len = Some(n)
            /\ Get(ret.header_call) = [args.header_kwargs EXCEPT !.array_len = Some(n)]
            /\ Len(L) = Len(H) + 1 + Len(body) + 1
            /\ \A k \in 1..Len(H) : L[k] = H[k]
            /\ L[Len(H) + 1] = args.prefix
            /\ \A k \in 1..Len(body) : L[Len(H) + 1 + k] = body[k]
            /\ L[Len(L)] = ""
            /\ Cardinality({k \in 1..Len(L) : L[k] = ";;"}) = n

\* A script was built for a list of MaxArray commands
C3_Witness ==
    /\ op = "get_job_string" /\ ret.err = "none"
    /\ args.job = None /\ args.job_array # None
    /\ Len(Get(args.job_array)) = MaxArray
    /\ Get(args.job_array)[1] # Get(args.job_array)[MaxArray]
    /\ Contains(ret.value, "\n" \o str_int(MaxArray) \o ")\n" \o Get(args.job_array)[MaxArray] \o "\n;;\n\nesac\n")

-----------------------------------------------------------------------------
(* C4: the submission runner. *)

Calls(kind) == {i \in 1..Len(ops) : ops[i].call = kind}

The(S) == CHOOSE x \in S : TRUE

\* The script run_job assembles: get_job_string with the output directory resolved
RunScript(file) ==
    LET hk == args.job_kwargs.header_kwargs
        out == IF hk.output_dir = None
               THEN path_join(<< dirname(dirname(file)), "output", args.job_uuid >>)
               ELSE Get(hk.output_dir)
    IN  get_job_string(args.job_kwargs.job, args.job_kwargs.job_array, args.job_kwargs.prefix,
                       args.job_kwargs.slurm, [hk EXCEPT !.output_dir = Some(out)]).value

-----------------------------------------------------------------------------
(* C8, C9: the farm builder. *)

\* C8: a make_farm call on a farm_dir that exists fails with FileExistsError
\* before any other step: it copies nothing, writes nothing and leaves the
\* filesystem as it was.
C8_ExistingFarmDir ==
    [][ (op' = "make_farm" /\ Exists(fs, args'.farm_dir)) =>
            /\ ret'.err = "FileExistsError"
            /\ ops' = <<>>
            /\ fs' = fs ]_vars

\* A call failed on a farm directory that an earlier call had populated
C8_Witness ==
    /\ op = "make_farm" /\ ret.err = "FileExistsError" /\ ops = <<>>
    /\ (args.farm_dir \o "/table.dat") \in DOMAIN fs.files
    /\ fs.files[args.farm_dir \o "/table.dat"] # table_string(args.case_list)

\* The table the farm is to have: row i is '<i> <case i>', each row newline-terminated
RECURSIVE TableRows(_, _)
TableRows(case_list, i) ==
    IF i > Len(case_list) THEN ""
    ELSE str_int(i) \o " " \o case_list[i] \o "\n" \o TableRows(case_list, i + 1)

\* C9: the table file make_farm writes for a case_list of length n has exactly
\* n rows, row i being '<i> <case_list[i]>' counted from 1 in list order, every
\* row, the last one included, terminated by a newline.
C9_TableRows ==
    (op = "make_farm" /\ \E i \in Calls("write") : ops[i].path = args.farm_dir \o "/table.dat") =>
        fs.files[args.farm_dir \o "/table.dat"] = TableRows(args.case_list, 1)

-----------------------------------------------------------------------------
(* C11: the order of make_farm's steps and what a failed call leaves. *)

Step(kind, path) == [kind |-> kind, path |-> path]

\* The steps of make_farm in the order claimed
FarmPlan(a) ==
    << Step("mkdir", a.farm_dir),
       Step("copy", a.farm_dir \o "/config.h"),
       Step("copy", a.farm_dir \o "/single_case.sh"),
       Step("write", a.farm_dir \o "/job_script.sh"),
       Step("write", a.farm_dir \o "/resubmit_script.sh"),
       Step("write", a.farm_dir \o "/table.dat") >>
    \o (IF a.final.script # None THEN << Step("write", a.farm_dir \o "/final.sh") >> ELSE << >>)

IsBegun(e) == e.call \in {"mkdir", "copy", "open"}
IsDone(e) == e.call \in {"mkdir", "copy", "write"}

\* The steps the last call began (a write step begins when its file is opened)
\* and the steps it completed, in the order of their effects
StepsBegun ==
    LET B == SelectSeq(ops, IsBegun)
    IN  [i \in 1..Len(B) |-> Step(IF B[i].call = "open" THEN "write" ELSE B[i].call, B[i].path)]

StepsDone ==
    LET D == SelectSeq(ops, IsDone)
    IN  [i \in 1..Len(D) |-> Step(D[i].call, D[i].path)]

IsPrefix(p, q) == Len(p) <= Len(q) /\ SubSeq(q, 1, Len(p)) = p

PathsOf(steps) == {steps[i].path : i \in 2..Len(steps)}

FilesIn(dir) == {q \in DOMAIN fs.files : StartsWith(q, dir \o "/")}

\* The last call was a make_farm that created its directory
FarmCreated == op = "make_farm" /\ ops # << >>

\* C11 as claimed: the steps run in the fixed order, no submission is made,
\* and after a failure at step k the directory holds exactly the files of
\* the steps before k.
C11_ExactlyEarlierFiles ==
    FarmCreated =>
        /\ IsPrefix(StepsDone, FarmPlan(args))
        /\ Calls("system") = {}
        /\ args.farm_dir \in fs.dirs
        /\ FilesIn(args.farm_dir) = PathsOf(StepsDone)

\* C11 as amended: make_farm's steps run in the fixed order (final.sh only
\* when final_script is given) and it never invokes the submission command;
\* a call returns exactly when every step completed; after a failure at step
\* k the directory exists and holds the files of the steps before k with
\* their contents and, when step k is a script write whose get_job_string
\* raises, also the empty file that step had already opened; a final_script
\* without final_args fails with TypeError only after table.dat is written.
C11_StepOrderNoRollback ==
    FarmCreated =>
        /\ IsPrefix(StepsBegun, FarmPlan(args))
        /\ IsPrefix(StepsDone, StepsBegun)
        /\ Len(StepsBegun) <= Len(StepsDone) + 1
        /\ Calls("system") = {}
        /\ (ret.err = "none") <=> (StepsDone = FarmPlan(args))
        /\ args.farm_dir \in fs.dirs
        /\ FilesIn(args.farm_dir) = PathsOf(StepsBegun)
        /\ \A i \in Calls("write") : fs.files[ops[i].path] = ops[i].data
        /\ \A i \in Calls("copy") : fs.files[ops[i].path] = fs.files[ops[i].data]
        /\ \A q \in PathsOf(StepsBegun) \ PathsOf(StepsDone) : fs.files[q] = ""
        /\ (args.final.script # None /\ args.final.args = None /\ ret.err = "TypeError") =>
               /\ Len(StepsDone) = 6
               /\ \E i \in Calls("write") : ops[i].path = args.farm_dir \o "/table.dat"

\* A call with final_script and no final_args failed after writing table.dat
C11_Witness ==
    /\ FarmCreated
    /\ args.final.script # None /\ args.final.args = None
    /\ ret.err = "TypeError"
    /\ Len(args.case_list) = MaxCases
    /\ fs.files[args.farm_dir \o "/table.dat"] = table_string(args.case_list)
    /\ (args.farm_dir \o "/final.sh") \in DOMAIN fs.files

-----------------------------------------------------------------------------
(* C12, C13: one scheduler kind per script. *)

\* The scheduler kind the directives of a script belong to
DirectiveKind(text) ==
    LET L == Lines(text)
        sbatch == \E i \in 1..Len(L) : StartsWith(L[i], "#SBATCH")
        pbs == \E i \in 1..Len(L) : StartsWith(L[i], "#PBS")
    IN  IF sbatch /\ ~pbs THEN "slurm"
        ELSE IF pbs /\ ~sbatch THEN "pbs"
        ELSE "mixed"

\* The scheduler kind of the variable a script's case construct dispatches on
DispatchKind(text) ==
    LET L == Lines(text)
        slurm == \E i \in 1..Len(L) : L[i] = "case $SLURM_ARRAY_TASK_ID in"
        pbs == \E i \in 1..Len(L) : L[i] = "case $PBS_ARRAY_INDEX in"
    IN  IF slurm /\ ~pbs THEN "slurm"
        ELSE IF pbs /\ ~slurm THEN "pbs"
        ELSE "mixed"

\* C12: in every script get_job_string returns for a job_array the dispatch
\* variable is of the scheduler kind of the header: '#PBS' directives come
\* with $PBS_ARRAY_INDEX, '#SBATCH' directives with $SLURM_ARRAY_TASK_ID,
\* whatever the platform and slurm arguments.
C12_DispatchMatchesHeader ==
    (op = "get_job_string" /\ args.job = None /\ args.job_array # None /\ ret.err = "none") =>
        /\ DirectiveKind(ret.value) \in {"slurm", "pbs"}
        /\ DispatchKind(ret.value) = DirectiveKind(ret.value)

\* C13: a run_job call that is not a dry run invokes 'sbatch' only on a file
\* of '#SBATCH' directives and 'qsub' only on a file of '#PBS' directives,
\* and a generated file name ends in '.sh' or '.pbs' accordingly, with the
\* platform passed or left to DEFAULT_PLATFORM.
C13_SubmitMatchesHeader ==
    (op = "run_job" /\ ~args.dry_run /\ Calls("system") # {}) =>
        LET file == ops[The(Calls("write"))].path
            cmd == ops[The(Calls("system"))].data
            kind == DirectiveKind(fs.files[file])
        IN  /\ cmd = "sbatch " \o file => kind = "slurm"
            /\ cmd = "qsub " \o file => kind = "pbs"
            /\ args.fname = None =>
                    /\ EndsWith(file, ".sh") => kind = "slurm"
                    /\ EndsWith(file, ".pbs") => kind = "pbs"

====
